---- MODULE Spec2Model ----
(***************************************************************************)
(* Model of the devstral-proxy request pipeline                            *)
(* (src/devstral_proxy/utils.py): the content normalizer, the per-message  *)
(* transcoder convert_openai_to_mistral_message and the whole-sequence     *)
(* pass sanitize_request_body.                                             *)
(*                                                                         *)
(* Python values are modelled as follows.                                  *)
(*   - a str is a sequence of one-character strings (<<>> is "");         *)
(*   - None / an absent key read through dict.get is the record NoneC;     *)
(*   - a dict with a fixed shape is a record, a dict with free keys is a   *)
(*     function from the keys it holds to their values;                    *)
(*   - a list is a sequence.                                               *)
(***************************************************************************)
EXTENDS Integers, Sequences, FiniteSets

VARIABLES
    request,    \* the request body as the caller submitted it (never changes)
    body,       \* the caller's request body object (mutable dict)
    out,        \* result of sanitize_request_body(body)
    out2,       \* result of sanitize_request_body applied to out's body
    msg,        \* a single inbound message handed to the transcoder
    converted,  \* result of convert_openai_to_mistral_message(msg)
    normalized, \* result of normalize_content(msg.content)
    upstream,   \* the backend's answer as it arrived (never changes)
    resp,       \* the parsed backend response object (mutable dict)
    adapted,    \* result of sanitize_response_body(resp)
    inbound,    \* the inbound HTTP request of the handler
    sent,       \* the bodies posted to the backend, in order
    reply,      \* the response returned to the caller
    settings,   \* the process-wide configuration (config.settings)
    workers,    \* the handler coroutines of concurrent inbound requests
    validation, \* a call of _validate_tool_calls: arguments and result
    pc          \* position of the driver

vars == <<request, body, out, out2, msg, converted, normalized,
          upstream, resp, adapted, inbound, sent, reply, settings, workers,
          validation, pc>>

requestVars == <<request, body, out, out2>>
transcoderVars == <<msg, converted, normalized>>
responseVars == <<upstream, resp, adapted>>
handlerVars == <<inbound, sent, reply, settings, workers, validation>>

----------------------------------------------------------------------------
(* Bounds *)

MaxLen == 3        \* longest inbound message sequence (repair runs)
MaxStreamLen == 1  \* longest message / tool list (control-flag runs)
MaxParts == 2      \* longest list of content parts (transcoder runs)
MaxCalls == 2      \* longest tool_calls list (transcoder and response runs)
MaxChoices == 2    \* longest choices list of a backend response

----------------------------------------------------------------------------
(* Python values *)

NoId == "<absent>"       \* the key is not in the dict (dict.get gives None)
NoneC == [kind |-> "none"]
StrC(s) == [kind |-> "str", s |-> s]
PartsC(ps) == [kind |-> "parts", parts |-> ps]

Placeholder == StrC(<<" ">>)
EmptyStr == StrC(<<>>)

IsSpace(c) == c \in {" ", "\n"}

RECURSIVE LStrip(_)
LStrip(s) ==
    IF s = <<>> THEN s
    ELSE IF IsSpace(Head(s)) THEN LStrip(Tail(s)) ELSE s

RECURSIVE RStrip(_)
RStrip(s) ==
    IF s = <<>> THEN s
    ELSE IF IsSpace(s[Len(s)]) THEN RStrip(SubSeq(s, 1, Len(s) - 1)) ELSE s

\* mutant: lstrip() instead of strip()
Strip_LeadingOnly(s) == LStrip(s)

\* str.strip()
Strip(s) == RStrip(LStrip(s))

\* "\n".join(texts)
RECURSIVE JoinNl(_)
JoinNl(texts) ==
    IF texts = <<>> THEN <<>>
    ELSE IF Len(texts) = 1 THEN texts[1]
    ELSE texts[1] \o <<"\n">> \o JoinNl(Tail(texts))

\* "".join(texts)
RECURSIVE Concat(_)
Concat(texts) ==
    IF texts = <<>> THEN <<>> ELSE Head(texts) \o Concat(Tail(texts))

\* part.get("text") or ""   /   chunk.get("text", "")
PartText(part) == IF part.text.kind = "str" THEN part.text.s ELSE <<>>

IsTextPart(part) == part.type = "text"

RECURSIVE TextsOf(_)
TextsOf(parts) ==
    IF parts = <<>> THEN <<>>
    ELSE IF IsTextPart(Head(parts))
         THEN <<PartText(Head(parts))>> \o TextsOf(Tail(parts))
         ELSE TextsOf(Tail(parts))

\* normalize_content: always a str
normalize_content(content) ==
    CASE content.kind = "none"  -> <<>>
      [] content.kind = "str"   -> content.s
      [] content.kind = "parts" -> Strip(JoinNl(TextsOf(content.parts)))

----------------------------------------------------------------------------
(* Messages and tool calls *)

NoCalls == [kind |-> "absent", calls |-> <<>>]     \* no tool_calls key
NullCalls == [kind |-> "null", calls |-> <<>>]     \* tool_calls: None
ListCalls(cs) == [kind |-> "list", calls |-> cs]   \* tool_calls: [...]

NoFunction == [kind |-> "absent", name |-> "", arguments |-> ""]
Function(n, a) == [kind |-> "obj", name |-> n, arguments |-> a]

NoIndex == -1

ToolCall(id, fn, idx) ==
    [id |-> id, type |-> "function", function |-> fn, index |-> idx]

NoExtra == [k \in {} |-> 0]

Message(role, content, tcs, tcid, extra) ==
    [role |-> role, content |-> content, tool_calls |-> tcs,
     tool_call_id |-> tcid, extra |-> extra]

Dropped == [kind |-> "dropped"]
Raised == [kind |-> "raise"]
Kept(m) == [kind |-> "kept", msg |-> m]

\* bool(msg.get("tool_calls"))
HasCalls(m) == m.tool_calls.kind = "list" /\ m.tool_calls.calls # <<>>

\* mutant: the tool branch forgets to flatten a list of content chunks
ToolContent_Unflattened(content) ==
    IF content.kind = "none" THEN EmptyStr ELSE content

\* the tool branch: lines 103-129
ToolContent(content) ==
    CASE content.kind = "parts" -> StrC(Concat(TextsOf(content.parts)))
      [] content.kind = "str"   -> content
      [] content.kind = "none"  -> EmptyStr

\* mutant: only a missing tool_call_id drops the message, an empty one passes
ConvertTool_MissingOnly(m) ==
    IF m.tool_call_id = NoId
    THEN Dropped
    ELSE Kept([m EXCEPT !.content = ToolContent(m.content)])

ConvertTool(m) ==
    IF m.tool_call_id \in {NoId, ""}
    THEN Dropped
    ELSE Kept([m EXCEPT !.content = ToolContent(m.content)])

\* the tool-call loop: lines 143-162
ValidCall(tc) == tc.id # NoId /\ tc.function.kind = "obj"

\* mutant: the copied tool call keeps the index of the inbound one
MistralCall_KeepIndex(tc) ==
    [id |-> tc.id, type |-> IF tc.type = NoId THEN "function" ELSE tc.type,
     function |-> Function(tc.function.name, tc.function.arguments),
     index |-> tc.index]

MistralCall(tc) ==
    [id |-> tc.id, type |-> IF tc.type = NoId THEN "function" ELSE tc.type,
     function |-> Function(tc.function.name, tc.function.arguments),
     index |-> NoIndex]

RECURSIVE MistralCalls(_)
MistralCalls(cs) ==
    IF cs = <<>> THEN <<>>
    ELSE IF ValidCall(Head(cs))
         THEN <<MistralCall(Head(cs))>> \o MistralCalls(Tail(cs))
         ELSE MistralCalls(Tail(cs))

ConvertedCalls(tcs) ==
    IF tcs.kind = "absent" THEN NoCalls
    ELSE IF MistralCalls(tcs.calls) = <<>> THEN NullCalls
    ELSE ListCalls(MistralCalls(tcs.calls))

\* mutant: an empty normalized content stays "" instead of becoming None
AssistantContent_KeepEmpty(content) == StrC(normalize_content(content))

AssistantContent(content) ==
    IF normalize_content(content) = <<>> THEN NoneC
    ELSE StrC(normalize_content(content))

\* the assistant branch: lines 132-178
ConvertAssistant(m) ==
    IF m.tool_calls.kind = "null"
    THEN Raised     \* len(None) at line 141
    ELSE LET tcs == ConvertedCalls(m.tool_calls)
             c == AssistantContent(m.content)
         IN IF c = NoneC /\ tcs.kind # "list"
            THEN Dropped
            ELSE Kept([m EXCEPT !.tool_calls = tcs, !.content = c])

\* mutant: a user or system message without content is dropped
ConvertPlain_DropEmpty(m) ==
    IF normalize_content(m.content) = <<>>
    THEN Dropped
    ELSE Kept([m EXCEPT !.content = StrC(normalize_content(m.content))])

\* the user / system branch: lines 181-186
ConvertPlain(m) == Kept([m EXCEPT !.content = StrC(normalize_content(m.content))])

convert_openai_to_mistral_message(m) ==
    CASE m.role = "tool"               -> ConvertTool(m)
      [] m.role = "assistant"          -> ConvertAssistant(m)
      [] m.role \in {"user", "system"} -> ConvertPlain(m)
      [] OTHER                         -> Dropped

----------------------------------------------------------------------------
(* sanitize_request_body *)

\* a request-envelope flag read with body.get(flag): "absent", "true", "false"
Truthy(flag) == flag = "true"

NoTools == [kind |-> "absent", items |-> <<>>]
ToolList(ts) == [kind |-> "list", items |-> ts]

NoFnObj == [kind |-> "absent", keys |-> NoExtra]
FnObj(d) == [kind |-> "obj", keys |-> d]

Tool(d, fn) == [keys |-> d, function |-> fn]

Body(ms, ts, agp, cfm, stream, extra) ==
    [messages |-> ms, tools |-> ts, add_generation_prompt |-> agp,
     continue_final_message |-> cfm, stream |-> stream, extra |-> extra]

Ok(b) == [status |-> "ok", body |-> b]
Error == [status |-> "error"]

\* key.lower() on the keys of the model
Lower(k) == IF k = "Stream" THEN "stream" ELSE k

\* "stream" in key.lower()
HasStream(k) == Lower(k) \in {"stream", "stream_options"}

Restrict(d, K) == [k \in (DOMAIN d) \cap K |-> d[k]]

\* lines 343-347: the envelope keeps the key whose lower-case form is "stream"
StripEnvelope(d) ==
    Restrict(d, {k \in DOMAIN d : ~(HasStream(k) /\ Lower(k) # "stream")})

\* lines 353-356, 362-365, 368-371, 383-386: every key containing "stream"
StripNested(d) == Restrict(d, {k \in DOMAIN d : ~HasStream(k)})

StripMessage(m) == [m EXCEPT !.extra = StripNested(m.extra)]

StripFn(fn) ==
    IF fn.kind = "obj" THEN FnObj(StripNested(fn.keys)) ELSE fn

StripTool(t) == Tool(StripNested(t.keys), StripFn(t.function))

StripTools(ts) ==
    IF ts.kind = "list"
    THEN ToolList([i \in 1..Len(ts.items) |-> StripTool(ts.items[i])])
    ELSE ts

\* lines 248-251
RECURSIVE ConvertAll(_)
ConvertAll(ms) ==
    IF ms = <<>> THEN <<>>
    ELSE <<convert_openai_to_mistral_message(Head(ms))>> \o ConvertAll(Tail(ms))

RECURSIVE KeptMessages(_)
KeptMessages(rs) ==
    IF rs = <<>> THEN <<>>
    ELSE IF Head(rs).kind = "kept"
         THEN <<Head(rs).msg>> \o KeptMessages(Tail(rs))
         ELSE KeptMessages(Tail(rs))

AnyRaised(rs) == \E i \in 1..Len(rs) : rs[i] = Raised

CallIds(m) == {m.tool_calls.calls[j].id : j \in 1..Len(m.tool_calls.calls)}

\* lines 260-264
tool_calls_by_id(ms) ==
    UNION {CallIds(ms[i]) :
             i \in {n \in 1..Len(ms) : ms[n].role = "assistant" /\ HasCalls(ms[n])}}

\* lines 266-269
tool_responses_by_id(ms) ==
    {ms[i].tool_call_id : i \in {n \in 1..Len(ms) : ms[n].role = "tool"}}

\* mutant: only orphaned tool responses are marked
Problematic_OrphanOnly(ms, i) ==
    ms[i].tool_call_id \notin tool_calls_by_id(ms)

\* lines 275-292: the positions of the tool responses marked for removal
Problematic(ms, i) ==
    \/ ms[i].tool_call_id \notin tool_calls_by_id(ms)        \* is_orphaned
    \/ i = Len(ms)                                           \* is_last_message
    \/ (i + 1 <= Len(ms) /\ ms[i + 1].role = "user")         \* user right after

messages_to_remove(ms) ==
    {i \in 1..Len(ms) : ms[i].role = "tool" /\ Problematic(ms, i)}

tool_ids_to_remove(ms) == {ms[i].tool_call_id : i \in messages_to_remove(ms)}

\* lines 295-296
RECURSIVE RemoveFrom(_, _, _)
RemoveFrom(ms, i, R) ==
    IF i > Len(ms) THEN <<>>
    ELSE IF i \in R THEN RemoveFrom(ms, i + 1, R)
         ELSE <<ms[i]>> \o RemoveFrom(ms, i + 1, R)

RemoveMessages(ms) == RemoveFrom(ms, 1, messages_to_remove(ms))

\* lines 303-306
RECURSIVE FilterCalls(_, _, _)
FilterCalls(cs, responses, removed) ==
    IF cs = <<>> THEN <<>>
    ELSE IF Head(cs).id \in responses /\ Head(cs).id \notin removed
         THEN <<Head(cs)>> \o FilterCalls(Tail(cs), responses, removed)
         ELSE FilterCalls(Tail(cs), responses, removed)

\* lines 313-317: content is None or ""
NoContent(m) == m.content = NoneC \/ m.content = EmptyStr

\* mutant: the emptied tool_calls field is removed without the placeholder
PruneCalls_NoPlaceholder(m, responses, removed) ==
    IF m.role = "assistant" /\ HasCalls(m)
    THEN LET left == FilterCalls(m.tool_calls.calls, responses, removed)
         IN IF left = <<>>
            THEN [m EXCEPT !.tool_calls = NoCalls]
            ELSE [m EXCEPT !.tool_calls = ListCalls(left)]
    ELSE m

\* lines 299-317, one message
PruneCalls(m, responses, removed) ==
    IF m.role = "assistant" /\ HasCalls(m)
    THEN LET left == FilterCalls(m.tool_calls.calls, responses, removed)
         IN IF left = <<>>
            THEN [m EXCEPT !.tool_calls = NoCalls,
                           !.content = IF NoContent(m) THEN Placeholder ELSE @]
            ELSE [m EXCEPT !.tool_calls = ListCalls(left)]
    ELSE m

\* lines 259-317 on the converted sequence
Repair(ms) ==
    LET left == RemoveMessages(ms)
    IN [i \in 1..Len(left) |->
           PruneCalls(left[i], tool_responses_by_id(ms), tool_ids_to_remove(ms))]

\* lines 320-321
GenerationFlags(b) ==
    IF Truthy(b.add_generation_prompt) /\ Truthy(b.continue_final_message)
    THEN "absent"
    ELSE b.continue_final_message

DummyUser == Message("user", Placeholder, NoCalls, NoId, NoExtra)

\* mutant: body_copy.get("add_generation_prompt") without the default
PromptRequested_NoDefault(flag) == flag = "true"

\* body_copy.get("add_generation_prompt", True)
PromptRequested(flag) == flag \in {"absent", "true"}

\* mutant: the dummy user message is inserted at the front
Trailer_Prepend(ms, flag) ==
    IF ms # <<>> /\ ms[Len(ms)].role = "assistant" /\ PromptRequested(flag)
    THEN <<DummyUser>> \o ms
    ELSE ms

\* lines 326-332
Trailer(ms, flag) ==
    IF ms # <<>> /\ ms[Len(ms)].role = "assistant" /\ PromptRequested(flag)
    THEN Append(ms, DummyUser)
    ELSE ms

\* lines 335-338: not body_copy.get("stream", False)
NotStreaming(b) == ~Truthy(b.stream)

\* lines 350-356 and 380-386 act on body_copy["messages"], which still is the
\* caller's list: the converted messages are shallow copies made before and
\* are only stored into body_copy at line 394.
StripCallerMessages(ms) == [i \in 1..Len(ms) |-> StripMessage(ms[i])]

\* the value returned by sanitize_request_body(b)
sanitize_request_body(b) ==
    IF AnyRaised(ConvertAll(b.messages))
    THEN Error
    ELSE LET repaired == Repair(KeptMessages(ConvertAll(b.messages)))
             final == Trailer(repaired, b.add_generation_prompt)
         IN Ok([messages |-> final,
                tools |-> IF NotStreaming(b) THEN StripTools(b.tools) ELSE b.tools,
                add_generation_prompt |-> b.add_generation_prompt,
                continue_final_message |-> GenerationFlags(b),
                stream |-> b.stream,
                extra |-> IF NotStreaming(b) THEN StripEnvelope(b.extra)
                          ELSE b.extra])

\* the caller's dict after sanitize_request_body(b) returned or raised: the
\* message and tool dicts are shared with body_copy and stripped in place
CallerAfter(b) ==
    IF AnyRaised(ConvertAll(b.messages)) \/ ~NotStreaming(b)
    THEN b
    ELSE [b EXCEPT !.messages = StripCallerMessages(b.messages),
                   !.tools = StripTools(b.tools)]

----------------------------------------------------------------------------
(* Transcoder runs: one inbound message, one call *)

Texts == {<<>>, <<"a">>, <<" ">>}

TextParts == {[type |-> "text", text |-> StrC(s)] : s \in Texts}
                 \cup {[type |-> "text", text |-> NoneC],
                       [type |-> "image_url", text |-> NoneC]}

PartLists == UNION {[1..n -> TextParts] : n \in 0..MaxParts}

Contents == {NoneC} \cup {StrC(s) : s \in Texts} \cup {PartsC(ps) : ps \in PartLists}

Roles == {"system", "user", "assistant", "tool", "function", NoId}

InboundCalls ==
    {ToolCall("a", Function("f", "{}"), 0),
     ToolCall("b", Function("g", "{x}"), NoIndex),
     ToolCall(NoId, Function("f", "{}"), 1),
     ToolCall("a", NoFunction, NoIndex)}

CallLists ==
    {NoCalls} \cup {ListCalls(cs) : cs \in UNION {[1..n -> InboundCalls] : n \in 0..MaxCalls}}

TranscoderInputs ==
    {Message(r, c, tcs, id, NoExtra) :
        r \in Roles, c \in Contents, tcs \in CallLists, id \in {NoId, "", "a"}}

NoBody == [status |-> "none"]
NoMsg == [kind |-> "none"]
NoReply == [status |-> 0]

\* the parts of the state a run does not use
RequestIdle == request = NoBody /\ body = NoBody /\ out = NoBody /\ out2 = NoBody
TranscoderIdle == msg = NoMsg /\ converted = NoMsg /\ normalized = NoMsg
ResponseIdle == upstream = NoMsg /\ resp = NoMsg /\ adapted = NoMsg
\* config.py lines 50-54: TIMEOUT is None unless the environment sets it
Settings(timeout) == [TIMEOUT |-> timeout]
DefaultSettings == Settings(NoneC)

HandlerIdle ==
    /\ inbound = NoMsg
    /\ sent = <<>>
    /\ reply = NoReply
    /\ settings = DefaultSettings
    /\ workers = <<>>
    /\ validation = NoMsg

InitTranscode ==
    /\ msg \in TranscoderInputs
    /\ converted = [kind |-> "pending"]
    /\ normalized = [kind |-> "pending"]
    /\ RequestIdle
    /\ ResponseIdle
    /\ HandlerIdle
    /\ pc = "convert"

Convert ==
    /\ pc = "convert"
    /\ converted' = convert_openai_to_mistral_message(msg)
    /\ pc' = "converted"
    /\ UNCHANGED <<requestVars, responseVars, handlerVars, msg, normalized>>

\* normalize_content(msg.get("content"))
Normalize ==
    /\ pc = "convert"
    /\ normalized' = StrC(normalize_content(msg.content))
    /\ pc' = "normalized"
    /\ UNCHANGED <<requestVars, responseVars, handlerVars, msg, converted>>

NextTranscode == Convert \/ Normalize

SpecTranscode == InitTranscode /\ [][NextTranscode]_vars

----------------------------------------------------------------------------
(* Repair runs: a whole request body, sanitized, then sanitized again *)

Ids == {"a", "b"}

Call(id) == ToolCall(id, Function("f", "{}"), NoIndex)

Text == StrC(<<"a">>)

RepairCallLists ==
    {NoCalls, ListCalls(<<>>), ListCalls(<<Call("a")>>),
     ListCalls(<<Call("a"), Call("b")>>)}

RepairMessages ==
    {Message("user", Text, NoCalls, NoId, NoExtra),
     Message("user", NoneC, NoCalls, NoId, NoExtra),
     Message("system", Text, NoCalls, NoId, NoExtra),
     Message("assistant", EmptyStr, ListCalls(<<Call("a")>>), NoId, NoExtra)}
    \cup {Message("tool", Text, NoCalls, id, NoExtra) : id \in Ids}
    \cup {Message("assistant", c, tcs, NoId, NoExtra) :
             c \in {NoneC, Text}, tcs \in RepairCallLists}

RepairSequences == UNION {[1..n -> RepairMessages] : n \in 0..MaxLen}

RepairBodies ==
    {Body(ms, NoTools, agp, cfm, "absent", NoExtra) :
        ms \in RepairSequences,
        agp \in {"absent", "true", "false"},
        cfm \in {"absent", "true"}}

InitRepair ==
    /\ body \in RepairBodies
    /\ request = body
    /\ out = NoBody
    /\ out2 = NoBody
    /\ TranscoderIdle
    /\ ResponseIdle
    /\ HandlerIdle
    /\ pc = "request"

\* sanitized_body = sanitize_request_body(body)
Sanitize ==
    /\ pc = "request"
    /\ out' = sanitize_request_body(body)
    /\ body' = CallerAfter(body)
    /\ pc' = "sanitized"
    /\ UNCHANGED <<request, out2, transcoderVars, responseVars, handlerVars>>

\* sanitize_request_body(sanitized_body): the repairer run on its own output
Resanitize ==
    /\ pc = "sanitized"
    /\ out.status = "ok"
    /\ out2' = sanitize_request_body(out.body)
    /\ out' = Ok(CallerAfter(out.body))
    /\ pc' = "resanitized"
    /\ UNCHANGED <<request, body, transcoderVars, responseVars, handlerVars>>

Next == Sanitize \/ Resanitize

SpecRepair == InitRepair /\ [][Next]_vars

----------------------------------------------------------------------------
(* Control-flag runs: bodies whose dicts carry stream-named keys *)

DictVals == {1}

Dicts(K) == UNION {[S -> DictVals] : S \in SUBSET K}

StreamKeys == {"stream", "stream_options"}

StreamMessages ==
    {Message("user", Text, NoCalls, NoId, d) : d \in Dicts(StreamKeys)}

StreamTools ==
    {Tool(d, fn) :
        d \in Dicts(StreamKeys),
        fn \in {NoFnObj} \cup {FnObj(f) : f \in Dicts(StreamKeys)}}

StreamToolLists ==
    {NoTools} \cup {ToolList(ts) : ts \in UNION {[1..n -> StreamTools] : n \in 0..MaxStreamLen}}

StreamBodies ==
    {Body(ms, ts, "absent", "absent", st, e) :
        ms \in UNION {[1..n -> StreamMessages] : n \in 0..MaxStreamLen},
        ts \in StreamToolLists,
        st \in {"absent", "false", "true"},
        e \in Dicts({"stream_options", "Stream"})}

InitStream ==
    /\ body \in StreamBodies
    /\ request = body
    /\ out = NoBody
    /\ out2 = NoBody
    /\ TranscoderIdle
    /\ ResponseIdle
    /\ HandlerIdle
    /\ pc = "request"

SpecStream == InitStream /\ [][Next]_vars

----------------------------------------------------------------------------
(* sanitize_response_body *)

NonDict == [kind |-> "other"]
DictResponse(choices) == [kind |-> "dict", choices |-> choices]

NoChoices == [kind |-> "absent", items |-> <<>>]      \* no choices key
NullChoices == [kind |-> "null", items |-> <<>>]      \* choices: None
NumberChoices == [kind |-> "number", items |-> <<>>]  \* choices: 0
ChoiceList(cs) == [kind |-> "list", items |-> cs]

NoMessage == [kind |-> "absent", tool_calls |-> NoCalls]
NullMessage == [kind |-> "null", tool_calls |-> NoCalls]
ChoiceMessage(tcs) == [kind |-> "obj", tool_calls |-> tcs]

NullChoice == [kind |-> "null", message |-> NoMessage]
Choice(m) == [kind |-> "obj", message |-> m]

Returned(v) == [kind |-> "returned", value |-> v]

\* "message" in choice / "tool_calls" in choice["message"] on None: TypeError
ChoiceRaises(c) == c.kind = "null" \/ c.message.kind = "null"

\* mutant: enumerate(tool_calls, 1)
IndexCalls_FromOne(calls) ==
    [i \in 1..Len(calls) |-> [calls[i] EXCEPT !.index = i]]

\* lines 425-426: tool_call["index"] = idx, on the tool-call dicts themselves
IndexCalls(calls) ==
    [i \in 1..Len(calls) |-> [calls[i] EXCEPT !.index = i - 1]]

\* lines 422-426, one choice
AdaptChoice(c) ==
    IF c.message.kind = "obj" /\ c.message.tool_calls.kind = "list"
    THEN [c EXCEPT !.message.tool_calls.calls = IndexCalls(@)]
    ELSE c

\* the first choice the loop of line 421 fails on, Len + 1 when there is none
FirstRaise(items) ==
    IF \E i \in 1..Len(items) : ChoiceRaises(items[i])
    THEN CHOOSE i \in 1..Len(items) :
             /\ ChoiceRaises(items[i])
             /\ \A j \in 1..(i - 1) : ~ChoiceRaises(items[j])
    ELSE Len(items) + 1

\* line 421: for choice in response_copy["choices"]
ResponseRaises(r) ==
    /\ r.kind = "dict"
    /\ \/ r.choices.kind \in {"null", "number"}
       \/ r.choices.kind = "list" /\ FirstRaise(r.choices.items) <= Len(r.choices.items)

\* the response object after the call: response_copy shares the choices, so
\* the choices handled before a failure carry the index fields
ResponseAfter(r) ==
    IF r.kind = "dict" /\ r.choices.kind = "list"
    THEN [r EXCEPT !.choices.items =
              [i \in 1..Len(@) |->
                  IF i < FirstRaise(@) THEN AdaptChoice(@[i]) ELSE @[i]]]
    ELSE r

sanitize_response_body(r) ==
    IF ResponseRaises(r) THEN Raised ELSE Returned(ResponseAfter(r))

----------------------------------------------------------------------------
(* Response runs: one backend response, adapted *)

ResponseCalls ==
    {ToolCall("a", Function("f", "{}"), NoIndex),
     ToolCall("b", Function("g", "{x}"), 5)}

ResponseCallLists ==
    {NoCalls, NullCalls}
    \cup {ListCalls(cs) : cs \in UNION {[1..n -> ResponseCalls] : n \in 0..MaxCalls}}

ResponseChoices ==
    {NullChoice, Choice(NoMessage), Choice(NullMessage)}
    \cup {Choice(ChoiceMessage(tcs)) : tcs \in ResponseCallLists}

Responses ==
    {NonDict, DictResponse(NoChoices), DictResponse(NullChoices),
     DictResponse(NumberChoices)}
    \cup {DictResponse(ChoiceList(cs)) :
             cs \in UNION {[1..n -> ResponseChoices] : n \in 0..MaxChoices}}

InitResponse ==
    /\ upstream \in Responses
    /\ resp = upstream
    /\ adapted = [kind |-> "pending"]
    /\ RequestIdle
    /\ TranscoderIdle
    /\ HandlerIdle
    /\ pc = "response"

\* sanitized_response = sanitize_response_body(response_data)
Adapt ==
    /\ pc = "response"
    /\ adapted' = sanitize_response_body(resp)
    /\ resp' = ResponseAfter(resp)
    /\ pc' = "adapted"
    /\ UNCHANGED <<requestVars, transcoderVars, handlerVars, upstream>>

NextResponse == Adapt

SpecResponse == InitResponse /\ [][NextResponse]_vars

----------------------------------------------------------------------------
(* handle_chat_completion *)

\* the text of execution_instruction, one token of the model's alphabet
Instruction == "<execution_instruction>"

\* task_indicators, each phrase one token of the model's alphabet
TaskIndicators == {"proceed with", "do these items"}

\* the characters a list content gains from  content += "\n\n" + instruction
InstructionChars ==
    [i \in 1..3 |-> [type |-> "char", text |-> NoneC]]

\* _detect_task_request: an indicator occurs in the last message's text
IsTaskRequest(b) ==
    /\ b.messages # <<>>
    /\ LET content == normalize_content(b.messages[Len(b.messages)].content)
       IN  \E i \in 1..Len(content) : content[i] \in TaskIndicators

\* lines 155-159: the first message with role "system", 0 when there is none
FirstSystem(ms) ==
    IF \E i \in 1..Len(ms) : ms[i].role = "system"
    THEN CHOOSE i \in 1..Len(ms) :
             /\ ms[i].role = "system"
             /\ \A j \in 1..(i - 1) : ms[j].role # "system"
    ELSE 0

\* line 169: system_msg["content"] += "\n\n" + execution_instruction
AppendInstruction(content) ==
    IF content.kind = "str"
    THEN StrC(content.s \o <<"\n", "\n", Instruction>>)
    ELSE PartsC(content.parts \o InstructionChars)

\* line 149: body["tool_choice"] = "required"
ForceToolChoice(extra) ==
    [k \in (DOMAIN extra) \cup {"tool_choice"} |->
        IF k = "tool_choice" THEN "required" ELSE extra[k]]

\* line 169 on a system message whose content is None: TypeError
DetectionRaises(b) ==
    /\ IsTaskRequest(b)
    /\ FirstSystem(b.messages) # 0
    /\ b.messages[FirstSystem(b.messages)].content.kind = "none"

\* lines 144-174: the body as task detection leaves it
TaskPrepared(b) ==
    IF ~IsTaskRequest(b) THEN b
    ELSE IF DetectionRaises(b) THEN [b EXCEPT !.extra = ForceToolChoice(@)]
    ELSE [b EXCEPT
            !.extra = ForceToolChoice(@),
            !.messages =
                IF FirstSystem(@) = 0
                THEN <<Message("system", StrC(<<Instruction>>), NoCalls, NoId,
                               NoExtra)>> \o @
                ELSE [@ EXCEPT ![FirstSystem(b.messages)].content =
                                   AppendInstruction(@)]]

\* the outcomes of  await request.json()
JsonObject(b) == [kind |-> "json", value |-> b]   \* a JSON object
JsonList == [kind |-> "json_list"]                \* valid JSON, not an object
InvalidJson == [kind |-> "invalid_json"]          \* json.JSONDecodeError
Undecodable == [kind |-> "undecodable"]           \* bytes that are not UTF-8:
                                                  \* UnicodeDecodeError

\* the outcomes of  await client.post(...)
NetworkError == [kind |-> "http_error"]           \* httpx.HTTPError
NotJson == [kind |-> "not_json"]                  \* resp.json() fails
UndecodableReply == [kind |-> "undecodable"]      \* resp.json() on bytes that
                                                  \* are not UTF-8:
                                                  \* UnicodeDecodeError
TimedOut == [kind |-> "http_error", timeout |-> TRUE]  \* httpx.TimeoutException
NumberResponse == [kind |-> "number"]             \* the JSON document  0
Answer(status, payload) ==
    [kind |-> "answer", status |-> status, payload |-> payload]

\* the responses returned to the caller
ErrorReply(status, error) ==
    [status |-> status, error |-> error, content |-> NoMsg]
ContentReply(status, content) ==
    [status |-> status, error |-> "", content |-> content]

\* lines 136-141
InvalidJsonReply == ErrorReply(400, "Invalid JSON")
\* lines 185-190
SanitizationFailedReply == ErrorReply(400, "Request sanitization failed")
\* lines 205-210
BackendErrorReply == ErrorReply(502, "VLLM server error")
\* lines 256-264
ProxyErrorReply == ErrorReply(500, "Proxy error")
\* lines 265-273
OuterErrorReply == ErrorReply(500, "Proxy outer error")

\* lines 213-244: sanitize_response_body raises, or  "choices" in  a number
ProcessingRaises(r) ==
    ResponseRaises(r) \/ r.kind \in {"number", "undecodable"}

----------------------------------------------------------------------------
(* Handler runs: one inbound request through handle_chat_completion *)

MaxRequestLen == 2   \* longest inbound message sequence (handler runs)

TaskText == StrC(<<"proceed with">>)

HandlerMessages ==
    {Message("user", Text, NoCalls, NoId, NoExtra),
     Message("user", TaskText, NoCalls, NoId, NoExtra),
     Message("system", Text, NoCalls, NoId, NoExtra),
     Message("system", NoneC, NoCalls, NoId, NoExtra),
     Message("system", PartsC(<<[type |-> "text", text |-> Text]>>), NoCalls,
             NoId, NoExtra),
     Message("assistant", Text, NullCalls, NoId, NoExtra)}

HandlerBodies ==
    {Body(ms, NoTools, "absent", "absent", "absent", extra) :
        ms \in UNION {[1..n -> HandlerMessages] : n \in 0..MaxRequestLen},
        extra \in {NoExtra, [tool_choice |-> "auto"]}}

Inbound ==
    {InvalidJson, Undecodable, JsonList} \cup {JsonObject(b) : b \in HandlerBodies}

BackendPayloads ==
    {NotJson, UndecodableReply, NonDict, NumberResponse,
     DictResponse(NoChoices),
     DictResponse(NullChoices),
     DictResponse(ChoiceList(<<Choice(ChoiceMessage(NoCalls))>>)),
     DictResponse(ChoiceList(<<Choice(ChoiceMessage(ListCalls(<<Call("a")>>)))>>))}

BackendAnswers ==
    {NetworkError} \cup {Answer(s, p) : s \in {200, 500}, p \in BackendPayloads}

\* the configurations of a run: the default one, and TIMEOUT=30
Configurations == {DefaultSettings, Settings([kind |-> "seconds", n |-> 30])}

InitHandler ==
    /\ inbound \in Inbound
    /\ sent = <<>>
    /\ reply = NoReply
    /\ settings \in Configurations
    /\ workers = <<>>
    /\ validation = NoMsg
    /\ RequestIdle
    /\ TranscoderIdle
    /\ ResponseIdle
    /\ pc = "received"

\* lines 133-141: body = await request.json()
Parse ==
    /\ pc = "received"
    /\ CASE inbound.kind = "invalid_json" ->
                /\ reply' = InvalidJsonReply
                /\ pc' = "done"
                /\ UNCHANGED <<request, body>>
         [] inbound.kind = "undecodable" ->
                /\ reply' = OuterErrorReply
                /\ pc' = "done"
                /\ UNCHANGED <<request, body>>
         [] inbound.kind = "json_list" ->
                /\ body' = [status |-> "list"]
                /\ request' = body'
                /\ pc' = "parsed"
                /\ UNCHANGED reply
         [] inbound.kind = "json" ->
                /\ body' = inbound.value
                /\ request' = body'
                /\ pc' = "parsed"
                /\ UNCHANGED reply
    /\ UNCHANGED <<out, out2, transcoderVars, responseVars, inbound, sent,
                   settings, workers, validation>>

\* lines 143-204: task detection, sanitize_request_body, client.post
Forward ==
    /\ pc = "parsed"
    /\ IF body = [status |-> "list"]
       THEN \* line 84: body.get on a list, AttributeError
            /\ reply' = OuterErrorReply
            /\ pc' = "done"
            /\ UNCHANGED <<body, out, sent>>
       ELSE IF DetectionRaises(body)
       THEN /\ body' = TaskPrepared(body)
            /\ reply' = OuterErrorReply
            /\ pc' = "done"
            /\ UNCHANGED <<out, sent>>
       ELSE LET prepared == TaskPrepared(body)
                sanitized_body == sanitize_request_body(prepared)
            IN  /\ body' = CallerAfter(prepared)
                /\ out' = sanitized_body
                /\ IF sanitized_body = Error
                   THEN /\ reply' = SanitizationFailedReply
                        /\ pc' = "done"
                        /\ UNCHANGED sent
                   ELSE /\ sent' = Append(sent, sanitized_body.body)
                        /\ pc' = "forwarded"
                        /\ UNCHANGED reply
    /\ UNCHANGED <<request, out2, transcoderVars, responseVars, inbound,
                   settings, workers, validation>>

\* the backend's outcome of the post of lines 200-204
Backend ==
    /\ pc = "forwarded"
    /\ upstream' \in BackendAnswers
    /\ pc' = "answered"
    /\ UNCHANGED <<requestVars, transcoderVars, resp, adapted, handlerVars>>

\* mutant: the post is repeated once after an httpx.HTTPError
Respond_Retry ==
    /\ pc = "answered"
    /\ IF upstream.kind = "http_error" /\ Len(sent) < 2
       THEN /\ sent' = Append(sent, sent[1])
            /\ pc' = "forwarded"
            /\ UNCHANGED <<reply, resp, adapted>>
       ELSE /\ reply' = IF upstream.kind = "http_error" THEN BackendErrorReply
                        ELSE ContentReply(upstream.status, upstream.payload)
            /\ pc' = "done"
            /\ UNCHANGED <<sent, resp, adapted>>
    /\ UNCHANGED <<requestVars, transcoderVars, upstream, inbound, settings,
                   workers, validation>>

\* lines 205-264: the response returned for the backend's outcome
Respond ==
    /\ pc = "answered"
    /\ CASE upstream.kind = "http_error" ->
                /\ reply' = BackendErrorReply
                /\ UNCHANGED <<resp, adapted>>
         [] upstream.kind = "answer" /\ upstream.payload = NotJson ->
                /\ reply' = ContentReply(upstream.status, NotJson)
                /\ UNCHANGED <<resp, adapted>>
         [] upstream.kind = "answer" /\ upstream.payload = UndecodableReply ->
                /\ reply' = ProxyErrorReply
                /\ UNCHANGED <<resp, adapted>>
         [] upstream.kind = "answer"
                /\ upstream.payload \notin {NotJson, UndecodableReply} ->
                /\ adapted' = sanitize_response_body(upstream.payload)
                /\ resp' = ResponseAfter(upstream.payload)
                /\ reply' = IF ProcessingRaises(upstream.payload)
                            THEN ProxyErrorReply
                            ELSE ContentReply(upstream.status,
                                              ResponseAfter(upstream.payload))
    /\ pc' = "done"
    /\ UNCHANGED <<requestVars, transcoderVars, upstream, inbound, sent,
                   settings, workers, validation>>

\* line 193: AsyncClient(timeout=settings.TIMEOUT); when a timeout is set
\* and it expires the post raises httpx.TimeoutException, an httpx.HTTPError
TimeOut ==
    /\ pc = "forwarded"
    /\ settings.TIMEOUT.kind # "none"
    /\ upstream' = TimedOut
    /\ pc' = "answered"
    /\ UNCHANGED <<requestVars, transcoderVars, resp, adapted, handlerVars>>

NextHandler == Parse \/ Forward \/ Backend \/ TimeOut \/ Respond

SpecHandler == InitHandler /\ [][NextHandler]_vars

\* after the post: the event loop fires a timer that is set and resumes the
\* coroutine once the post has an outcome; nothing makes the backend answer
SpecHandlerLive ==
    /\ InitHandler
    /\ [][NextHandler]_vars
    /\ WF_vars(TimeOut)
    /\ WF_vars(Respond)

----------------------------------------------------------------------------
(* Concurrent runs: several inbound requests, one coroutine each *)

MaxWorkers == 2   \* number of concurrent inbound requests

WorkerIds == 1..MaxWorkers

\* the locals of one call of handle_chat_completion
NewFrame(inb) ==
    [inbound |-> inb, body |-> NoBody, sanitized_body |-> NoBody,
     sent |-> <<>>, upstream |-> NoMsg, reply |-> NoReply, pc |-> "received"]

\* mutant: body is kept in one slot of the proxy instance, which holds the
\* body of the first request once that request is parsed
Frame_Shared(ws, w) ==
    IF ws[w].pc = "parsed" /\ ws[1].body # NoBody
    THEN [ws[w] EXCEPT !.body = ws[1].body]
    ELSE ws[w]

\* line 122: every name the handler assigns is a local of the coroutine
Frame(ws, w) == ws[w]

\* lines 133-141
ParseStep(h) ==
    CASE h.inbound.kind = "invalid_json" ->
             [h EXCEPT !.reply = InvalidJsonReply, !.pc = "done"]
      [] h.inbound.kind = "undecodable" ->
             [h EXCEPT !.reply = OuterErrorReply, !.pc = "done"]
      [] h.inbound.kind = "json_list" ->
             [h EXCEPT !.body = [status |-> "list"], !.pc = "parsed"]
      [] h.inbound.kind = "json" ->
             [h EXCEPT !.body = h.inbound.value, !.pc = "parsed"]

\* lines 143-204
ForwardStep(h) ==
    IF h.body = [status |-> "list"]
    THEN [h EXCEPT !.reply = OuterErrorReply, !.pc = "done"]
    ELSE IF DetectionRaises(h.body)
    THEN [h EXCEPT !.body = TaskPrepared(h.body),
                   !.reply = OuterErrorReply, !.pc = "done"]
    ELSE LET prepared == TaskPrepared(h.body)
             sanitized_body == sanitize_request_body(prepared)
         IN  IF sanitized_body = Error
             THEN [h EXCEPT !.body = CallerAfter(prepared),
                            !.sanitized_body = sanitized_body,
                            !.reply = SanitizationFailedReply,
                            !.pc = "done"]
             ELSE [h EXCEPT !.body = CallerAfter(prepared),
                            !.sanitized_body = sanitized_body,
                            !.sent = Append(h.sent, sanitized_body.body),
                            !.pc = "forwarded"]

\* lines 200-204: the post returns or raises
AnswerStep(h, answer) == [h EXCEPT !.upstream = answer, !.pc = "answered"]

\* lines 205-264
RespondStep(h) ==
    [h EXCEPT
        !.pc = "done",
        !.reply =
            IF h.upstream.kind = "http_error" THEN BackendErrorReply
            ELSE IF h.upstream.payload = NotJson
            THEN ContentReply(h.upstream.status, NotJson)
            ELSE IF ProcessingRaises(h.upstream.payload) THEN ProxyErrorReply
            ELSE ContentReply(h.upstream.status,
                              ResponseAfter(h.upstream.payload))]

\* handle_chat_completion run on its own, from the request to the response
\* (to the pending post while the backend has given no outcome)
RECURSIVE Alone(_, _)
Alone(h, answer) ==
    CASE h.pc = "received"  -> Alone(ParseStep(h), answer)
      [] h.pc = "parsed"    -> Alone(ForwardStep(h), answer)
      [] h.pc = "forwarded" -> IF answer = NoMsg THEN h
                               ELSE Alone(AnswerStep(h, answer), answer)
      [] h.pc = "answered"  -> Alone(RespondStep(h), answer)
      [] h.pc = "done"      -> h

PlainBody(ms) == Body(ms, NoTools, "absent", "absent", "absent", NoExtra)

UserText == Message("user", Text, NoCalls, NoId, NoExtra)
UserTask == Message("user", TaskText, NoCalls, NoId, NoExtra)
SystemText == Message("system", Text, NoCalls, NoId, NoExtra)

ConcurrentInbound ==
    {InvalidJson,
     JsonObject(PlainBody(<<UserText>>)),
     JsonObject(PlainBody(<<UserTask>>)),
     JsonObject(PlainBody(<<SystemText, UserTask>>)),
     JsonObject(PlainBody(<<Message("assistant", Text, NullCalls, NoId,
                                    NoExtra)>>))}

ConcurrentAnswers ==
    {NetworkError,
     Answer(200, DictResponse(ChoiceList(
         <<Choice(ChoiceMessage(ListCalls(<<Call("a")>>)))>>)))}

InitConcurrent ==
    /\ workers \in [WorkerIds -> {NewFrame(inb) : inb \in ConcurrentInbound}]
    /\ inbound = NoMsg
    /\ sent = <<>>
    /\ reply = NoReply
    /\ settings = DefaultSettings
    /\ validation = NoMsg
    /\ RequestIdle
    /\ TranscoderIdle
    /\ ResponseIdle
    /\ pc = "serving"

WorkerParse(w) ==
    /\ workers[w].pc = "received"
    /\ workers' = [workers EXCEPT ![w] = ParseStep(Frame(workers, w))]

WorkerForward(w) ==
    /\ workers[w].pc = "parsed"
    /\ workers' = [workers EXCEPT ![w] = ForwardStep(Frame(workers, w))]

WorkerBackend(w) ==
    /\ workers[w].pc = "forwarded"
    /\ \E answer \in ConcurrentAnswers :
           workers' = [workers EXCEPT ![w] = AnswerStep(Frame(workers, w), answer)]

WorkerRespond(w) ==
    /\ workers[w].pc = "answered"
    /\ workers' = [workers EXCEPT ![w] = RespondStep(Frame(workers, w))]

NextConcurrent ==
    /\ \E w \in WorkerIds :
           \/ WorkerParse(w)
           \/ WorkerForward(w)
           \/ WorkerBackend(w)
           \/ WorkerRespond(w)
    /\ UNCHANGED <<requestVars, transcoderVars, responseVars, inbound, sent,
                   reply, settings, validation, pc>>

SpecConcurrent == InitConcurrent /\ [][NextConcurrent]_vars

----------------------------------------------------------------------------
(* _validate_tool_calls *)

\* a model name is the sequence of its parts between "-" characters

\* config.py lines 61-87, the max_tool_calls of each entry
MODEL_SPECIFIC_SETTINGS ==
    [m \in {<<"devstral", "small", "2">>, <<"devstral", "small">>,
            <<"devstral", "2">>} |->
        [max_tool_calls |-> IF m = <<"devstral", "2">> THEN 15 ELSE 10]]

\* proxy.py lines 56-61
DefaultModelSettings == [max_tool_calls |-> 5]

\* proxy.py lines 34-61
get_model_settings(model_name) ==
    LET base_model == IF Len(model_name) > 1 THEN <<model_name[1]>>
                      ELSE model_name
    IN  IF model_name \in DOMAIN MODEL_SPECIFIC_SETTINGS
        THEN MODEL_SPECIFIC_SETTINGS[model_name]
        ELSE IF base_model \in DOMAIN MODEL_SPECIFIC_SETTINGS
        THEN MODEL_SPECIFIC_SETTINGS[base_model]
        ELSE DefaultModelSettings

\* mutant: the name only has to be present
CallAccepted_AnyName(tc) ==
    /\ tc.function.kind = "obj"
    /\ tc.function.name # NoId
    /\ tc.function.arguments # NoId

\* lines 299-310: the checks no call may fail
CallAccepted(tc) ==
    /\ tc.function.kind = "obj"
    /\ tc.function.name # NoId /\ tc.function.name # ""
    /\ tc.function.arguments # NoId

\* lines 286-312
_validate_tool_calls(tool_calls, model_name) ==
    IF tool_calls = <<>> THEN TRUE
    ELSE IF Len(tool_calls) > get_model_settings(model_name).max_tool_calls
    THEN FALSE
    ELSE \A i \in 1..Len(tool_calls) : CallAccepted(tool_calls[i])

----------------------------------------------------------------------------
(* Validation runs: one list of tool calls, one model name *)

MaxValidated == 16   \* longest list of tool calls handed to the validator

GoodCall == ToolCall("a", Function("f", "{}"), NoIndex)

ValidationCalls ==
    {ToolCall("a", NoFunction, NoIndex)}
    \cup {ToolCall("a", Function(n, a), NoIndex) :
             n \in {"f", "", NoId}, a \in {"{}", NoId}}

\* lists of good calls, at most one of them replaced
ValidationLists ==
    {[i \in 1..n |-> GoodCall] : n \in 0..MaxValidated}
    \cup {[i \in 1..n |-> IF i = j THEN c ELSE GoodCall] :
             n \in 1..MaxValidated, j \in 1..MaxValidated, c \in ValidationCalls}

ModelNames ==
    DOMAIN MODEL_SPECIFIC_SETTINGS
    \cup {<<"unknown">>, <<"devstral">>, <<"devstral", "small", "2", "instruct">>}

InitValidate ==
    /\ validation \in
           {[tool_calls |-> cs, model_name |-> m, result |-> "pending"] :
               cs \in ValidationLists, m \in ModelNames}
    /\ inbound = NoMsg
    /\ sent = <<>>
    /\ reply = NoReply
    /\ settings = DefaultSettings
    /\ workers = <<>>
    /\ RequestIdle
    /\ TranscoderIdle
    /\ ResponseIdle
    /\ pc = "validate"

\* proxy._validate_tool_calls(tool_calls, model_name)
Validate ==
    /\ pc = "validate"
    /\ validation' =
           [validation EXCEPT !.result =
               _validate_tool_calls(validation.tool_calls, validation.model_name)]
    /\ pc' = "validated"
    /\ UNCHANGED <<requestVars, transcoderVars, responseVars, inbound, sent,
                   reply, settings, workers>>

NextValidate == Validate

SpecValidate == InitValidate /\ [][NextValidate]_vars

----------------------------------------------------------------------------
(* Properties of the repaired sequence *)

Sanitized == pc = "sanitized" /\ out.status = "ok"

OutMessages == out.body.messages

IsAssistant(m) == m.role = "assistant"

\* the message carries a tool call with this id
Emits(m, id) == IsAssistant(m) /\ HasCalls(m) /\ id \in CallIds(m)

ToolPositions(ms, id) ==
    {i \in 1..Len(ms) : ms[i].role = "tool" /\ ms[i].tool_call_id = id}

\* C1: repair is idempotent: sanitizing the sanitized body again succeeds and
\* returns the same message sequence.
C1_RepairIdempotent ==
    pc = "resanitized" =>
        /\ out2.status = "ok"
        /\ out2.body.messages = out.body.messages

\* C2: every tool message of the output answers a tool call carried by an
\* assistant message located earlier in the output.
C2_ToolAnswersEarlierCall ==
    Sanitized =>
        \A i \in 1..Len(OutMessages) :
            OutMessages[i].role = "tool" =>
                \E j \in 1..(i - 1) :
                    Emits(OutMessages[j], OutMessages[i].tool_call_id)

\* C3: every tool-call id left in an assistant message of the output has
\* exactly one tool message with that id in the output.
C3_ExactlyOneResponse ==
    Sanitized =>
        \A j \in 1..Len(OutMessages) :
            (IsAssistant(OutMessages[j]) /\ HasCalls(OutMessages[j])) =>
                \A id \in CallIds(OutMessages[j]) :
                    Cardinality(ToolPositions(OutMessages, id)) = 1

\* C4: every tool message of the output is immediately followed by a tool
\* message or by an assistant message.
C4_ToolFollowedByToolOrAssistant ==
    Sanitized =>
        \A i \in 1..Len(OutMessages) :
            OutMessages[i].role = "tool" =>
                /\ i < Len(OutMessages)
                /\ OutMessages[i + 1].role \in {"tool", "assistant"}

\* the inbound assistant messages the transcoder keeps, in order
HasValidCall(m) ==
    m.tool_calls.kind = "list"
        /\ \E j \in 1..Len(m.tool_calls.calls) : ValidCall(m.tool_calls.calls[j])

KeptAssistant(m) ==
    IsAssistant(m) /\ (normalize_content(m.content) # <<>> \/ HasValidCall(m))

\* C5: no assistant message of the output has both absent (or empty) content
\* and absent (or empty) tool_calls, and an assistant message that came in
\* with tool calls and no content and leaves with no tool call carries the
\* single-space placeholder.
C5_NoEmptyAssistant ==
    Sanitized =>
        /\ \A i \in 1..Len(OutMessages) :
               IsAssistant(OutMessages[i]) =>
                   ~(NoContent(OutMessages[i]) /\ ~HasCalls(OutMessages[i]))
        /\ LET ins == SelectSeq(request.messages, KeptAssistant)
               outs == SelectSeq(OutMessages, IsAssistant)
           IN /\ Len(ins) = Len(outs)
              /\ \A k \in 1..Len(ins) :
                     (normalize_content(ins[k].content) = <<>> /\ ~HasCalls(outs[k]))
                         => outs[k].content = Placeholder

C5_Witness ==
    /\ Sanitized
    /\ \E i \in 1..Len(request.messages) :
           /\ request.messages[i].role = "assistant"
           /\ request.messages[i].content = NoneC
           /\ HasCalls(request.messages[i])
    /\ \E i \in 1..Len(OutMessages) :
           /\ IsAssistant(OutMessages[i])
           /\ OutMessages[i].content = Placeholder
           /\ OutMessages[i].tool_calls = NoCalls

\* C6: when add_generation_prompt is true or absent and the output is not
\* empty, its last message is not an assistant message; a repaired sequence
\* ending with an assistant message gets the user message " " appended.
C6_TrailerInvariant ==
    (Sanitized /\ request.add_generation_prompt \in {"absent", "true"}) =>
        /\ OutMessages # <<>> => ~IsAssistant(OutMessages[Len(OutMessages)])
        /\ LET repaired == Repair(KeptMessages(ConvertAll(request.messages)))
           IN (repaired # <<>> /\ IsAssistant(repaired[Len(repaired)])) =>
                  OutMessages = Append(repaired, DummyUser)

C6_Witness ==
    /\ Sanitized
    /\ request.add_generation_prompt = "absent"
    /\ Len(request.messages) > 0
    /\ IsAssistant(request.messages[Len(request.messages)])
    /\ Len(OutMessages) >= 2
    /\ IsAssistant(OutMessages[Len(OutMessages) - 1])
    /\ OutMessages[Len(OutMessages)] = DummyUser

----------------------------------------------------------------------------
(* Properties of control-flag stripping *)

\* a key naming a streaming option: contains "stream", is not the key "stream"
StreamOption(k) == HasStream(k) /\ k # "stream"

NoStreamOption(d) == \A k \in DOMAIN d : ~StreamOption(k)

ToolClean(t) ==
    /\ NoStreamOption(t.keys)
    /\ t.function.kind = "obj" => NoStreamOption(t.function.keys)

\* C7: without streaming, the forwarded body holds no streaming option in
\* the envelope, in a message, in a tool declaration or in a tool's function.
C7_NoStreamOptionForwarded ==
    (Sanitized /\ request.stream # "true") =>
        /\ NoStreamOption(out.body.extra)
        /\ \A i \in 1..Len(OutMessages) : NoStreamOption(OutMessages[i].extra)
        /\ \A i \in 1..Len(out.body.tools.items) : ToolClean(out.body.tools.items[i])

KeepsStream(before, after) ==
    "stream" \in DOMAIN before =>
        ("stream" \in DOMAIN after /\ after["stream"] = before["stream"])

\* C8: without streaming, a key named exactly "stream" of the envelope, of a
\* message, of a tool declaration or of a tool's function is still there
\* with the same value in the forwarded body.
C8_LiteralStreamPreserved ==
    (Sanitized /\ request.stream # "true") =>
        /\ out.body.stream = request.stream
        /\ Len(OutMessages) = Len(request.messages)
        /\ \A i \in 1..Len(request.messages) :
               KeepsStream(request.messages[i].extra, OutMessages[i].extra)
        /\ Len(out.body.tools.items) = Len(request.tools.items)
        /\ \A i \in 1..Len(request.tools.items) :
               /\ KeepsStream(request.tools.items[i].keys, out.body.tools.items[i].keys)
               /\ KeepsStream(request.tools.items[i].function.keys,
                              out.body.tools.items[i].function.keys)

----------------------------------------------------------------------------
(* Properties of the transcoder *)

Transcoded == pc = "converted"

HasToolCallId(m) == m.tool_call_id \notin {NoId, ""}

----------------------------------------------------------------------------
(* What normalization is specified to return, stated on positions *)

NonSpace(s) == {i \in 1..Len(s) : s[i] \notin {" ", "\n"}}

Trimmed(s) ==
    IF NonSpace(s) = {} THEN <<>>
    ELSE SubSeq(s, CHOOSE i \in NonSpace(s) : \A j \in NonSpace(s) : i <= j,
                   CHOOSE i \in NonSpace(s) : \A j \in NonSpace(s) : j <= i)

TextOf(part) ==
    IF part.type = "text" /\ part.text.kind = "str" THEN part.text.s ELSE <<>>

\* the texts of the first n parts that are text parts, newline-joined
RECURSIVE JoinedUpTo(_, _)
JoinedUpTo(parts, n) ==
    IF n = 0 THEN <<>>
    ELSE IF parts[n].type # "text" THEN JoinedUpTo(parts, n - 1)
    ELSE IF \E i \in 1..(n - 1) : parts[i].type = "text"
         THEN JoinedUpTo(parts, n - 1) \o <<"\n">> \o TextOf(parts[n])
         ELSE TextOf(parts[n])

Normal(content) ==
    CASE content.kind = "none"  -> <<>>
      [] content.kind = "str"   -> content.s
      [] content.kind = "parts" -> Trimmed(JoinedUpTo(content.parts, Len(content.parts)))

\* C11: every message the transcoder keeps, whatever its role, carries the
\* normalized inbound content (for an assistant message: no content when that
\* string is empty).
C11_KeptContentNormalized ==
    (Transcoded /\ converted.kind = "kept") =>
        converted.msg.content =
            IF msg.role = "assistant" /\ Normal(msg.content) = <<>>
            THEN NoneC
            ELSE StrC(Normal(msg.content))

HasIdAndFunction(tc) == tc.id # NoId /\ tc.function.kind = "obj"

NoValidCall(m) ==
    \A j \in 1..Len(m.tool_calls.calls) : ~HasIdAndFunction(m.tool_calls.calls[j])

SameCall(before, after) ==
    /\ after.id = before.id
    /\ after.function.name = before.function.name
    /\ after.function.arguments = before.function.arguments
    /\ after.index = NoIndex

\* C13: the kept assistant message carries, in their inbound order, exactly
\* the tool calls that have an id and a function, each with the same id,
\* name and arguments and without index; an invalid call is discarded alone.
C13_ValidCallsKeptInOrder ==
    (Transcoded /\ msg.role = "assistant" /\ msg.tool_calls.kind = "list") =>
        LET valid == SelectSeq(msg.tool_calls.calls, HasIdAndFunction)
        IN /\ converted # Raised
           /\ (valid # <<>> \/ Normal(msg.content) # <<>>) => converted.kind = "kept"
           /\ converted.kind = "kept" =>
                  /\ Len(converted.msg.tool_calls.calls) = Len(valid)
                  /\ \A j \in 1..Len(valid) :
                         SameCall(valid[j], converted.msg.tool_calls.calls[j])

C13_Witness ==
    /\ Transcoded
    /\ msg.role = "assistant"
    /\ msg.tool_calls.kind = "list"
    /\ Len(msg.tool_calls.calls) = 2
    /\ msg.tool_calls.calls[1].id = NoId
    /\ msg.tool_calls.calls[2].index = 0
    /\ converted.kind = "kept"
    /\ Len(converted.msg.tool_calls.calls) = 1
    /\ converted.msg.tool_calls.calls[1].id = "a"
    /\ converted.msg.tool_calls.calls[1].index = NoIndex

\* C14: a user or system message is always kept, with its role and a string
\* content ("" when it has none); a message of any other role than system,
\* user, assistant, tool, or without role, is dropped and nothing is raised.
C14_PlainKeptUnknownDropped ==
    Transcoded =>
        /\ msg.role \in {"user", "system"} =>
               /\ converted.kind = "kept"
               /\ converted.msg.role = msg.role
               /\ converted.msg.content.kind = "str"
               /\ msg.content = NoneC => converted.msg.content = EmptyStr
        /\ msg.role \notin {"system", "user", "assistant", "tool"} =>
               converted = Dropped

C14_Witness ==
    /\ Transcoded
    /\ msg.role = "system"
    /\ msg.content = NoneC
    /\ converted.kind = "kept"
    /\ converted.msg.content = EmptyStr

\* C15: normalize_content returns a string: "" for no content, and for a
\* list of parts the texts of its text parts, in order, joined by newlines
\* and trimmed, the other parts being discarded.
C15_NormalizeContent ==
    pc = "normalized" =>
        /\ normalized.kind = "str"
        /\ msg.content = NoneC => normalized.s = <<>>
        /\ msg.content.kind = "parts" =>
               /\ normalized.s = Trimmed(JoinedUpTo(msg.content.parts, Len(msg.content.parts)))
               /\ (\A i \in 1..Len(msg.content.parts) : msg.content.parts[i].type # "text")
                      => normalized.s = <<>>

C15_Witness ==
    /\ pc = "normalized"
    /\ msg.content.kind = "parts"
    /\ Len(msg.content.parts) = 2
    /\ msg.content.parts[1].text = StrC(<<"a">>)
    /\ msg.content.parts[2].text = StrC(<<" ">>)
    /\ normalized = StrC(<<"a">>)

----------------------------------------------------------------------------
(* Properties of the response adapter *)

Adapted == pc = "adapted"

WellFormedChoice(c) == c.kind = "obj" /\ c.message.kind \in {"absent", "obj"}

WellFormed(r) ==
    /\ r.kind = "dict"
    /\ r.choices.kind \in {"absent", "list"}
    /\ \A i \in 1..Len(r.choices.items) : WellFormedChoice(r.choices.items[i])

\* C16: in every choice of the adapted response the tool call at position i
\* (from zero) has index i and is otherwise the backend's tool call; the
\* choices and their tool calls keep their number and order.
C16_IndexIsPosition ==
    (Adapted /\ WellFormed(upstream)) =>
        /\ adapted.kind = "returned"
        /\ adapted.value.kind = "dict"
        /\ adapted.value.choices.kind = upstream.choices.kind
        /\ Len(adapted.value.choices.items) = Len(upstream.choices.items)
        /\ \A i \in 1..Len(upstream.choices.items) :
               LET before == upstream.choices.items[i].message.tool_calls
                   after == adapted.value.choices.items[i].message.tool_calls
               IN /\ after.kind = before.kind
                  /\ Len(after.calls) = Len(before.calls)
                  /\ \A j \in 1..Len(before.calls) :
                         after.calls[j] = [before.calls[j] EXCEPT !.index = j - 1]

C16_Witness ==
    /\ Adapted
    /\ WellFormed(upstream)
    /\ Len(upstream.choices.items) = 2
    /\ Len(upstream.choices.items[2].message.tool_calls.calls) = 2
    /\ upstream.choices.items[2].message.tool_calls.calls[1].index = 5
    /\ upstream.choices.items[2].message.tool_calls.calls[2].index = NoIndex
    /\ adapted.kind = "returned"
    /\ adapted.value.choices.items[2].message.tool_calls.calls[1].index = 0
    /\ adapted.value.choices.items[2].message.tool_calls.calls[2].index = 1

\* C17: the adapter does not modify the response object it is given.
C17_ResponseNotMutated ==
    Adapted => resp = upstream

\* a response the adapter has nothing to do on: not a dict, or a dict with
\* choices, a choice, a message or tool_calls that is null or missing
Malformed(r) ==
    \/ r.kind # "dict"
    \/ r.choices.kind \in {"null", "number"}
    \/ \E i \in 1..Len(r.choices.items) :
           \/ r.choices.items[i].kind = "null"
           \/ r.choices.items[i].message.kind \in {"null", "absent"}
           \/ r.choices.items[i].message.tool_calls.kind \in {"null", "absent"}

NoCallsAnywhere(r) ==
    \A i \in 1..Len(r.choices.items) :
        r.choices.items[i].message.tool_calls.calls = <<>>

\* C18: a response that is not a dict, or a malformed one, is returned
\* unchanged and nothing is raised.
C18_MalformedPassesThrough ==
    (Adapted /\ Malformed(upstream)) =>
        /\ adapted # Raised
        /\ (upstream.kind # "dict" \/ NoCallsAnywhere(upstream)) =>
               adapted = Returned(upstream)

----------------------------------------------------------------------------
(* Properties of the request pipeline as a whole *)

\* C19: sanitize_request_body does not mutate its input: the messages and
\* the tool declarations of the caller's body are after the call what they
\* were before it.
C19_RequestNotMutated ==
    pc = "sanitized" =>
        /\ body.messages = request.messages
        /\ body.tools = request.tools

----------------------------------------------------------------------------
(* Properties of the handler *)

\* request.json() raised: the request body could not be parsed
Unparsable == inbound.kind \in {"invalid_json", "undecodable"}

\* sanitize_request_body raised
SanitizationRaised == out = Error

\* C20: if the request body cannot be parsed or sanitization raises, nothing
\* is ever posted to the backend for that request and the response the
\* caller receives has status 400.
C20_ClientErrorNothingSent ==
    (Unparsable \/ SanitizationRaised) =>
        /\ sent = <<>>
        /\ pc = "done" => reply.status = 400

\* C21: the backend is contacted at most once per inbound request; when the
\* single post fails with a network error the caller receives status 502 and
\* the post is not repeated.
C21_AtMostOnePost ==
    /\ Len(sent) <= 1
    /\ (pc = "done" /\ upstream.kind = "http_error") =>
           /\ reply.status = 502
           /\ reply.status \notin {400, 500}
           /\ Len(sent) = 1

C21_Witness ==
    /\ pc = "done"
    /\ upstream = NetworkError
    /\ reply = BackendErrorReply
    /\ Len(sent) = 1

\* C22: under the default configuration, once the request has been posted
\* the handler eventually returns a response even if the backend never
\* answers.
C22_DefaultTimeoutBounded ==
    (settings = DefaultSettings /\ pc = "forwarded") ~> (pc = "done")

\* the backend answered with a body that is not JSON
ReplyNotJson ==
    upstream.kind = "answer" /\ upstream.payload \in {NotJson, UndecodableReply}

\* the backend answered with JSON that response processing fails on
ReplyUnprocessable ==
    /\ upstream.kind = "answer"
    /\ \/ upstream.payload = NumberResponse
       \/ /\ upstream.payload.kind = "dict"
          /\ upstream.payload.choices.kind = "null"

\* task detection failed: the body is not an object, or the instruction was
\* appended to a system message without text
DetectionFailed ==
    /\ pc = "done"
    /\ sent = <<>>
    /\ inbound.kind \in {"json", "json_list"}
    /\ out = NoBody

\* C23: every failure path returns exactly one response: unparsable body and
\* sanitization failure give 400, backend network failure gives 502, any
\* other exception gives 500, and a backend reply that is not JSON is passed
\* through with the backend's status code.
C23_EveryFailureAnswered ==
    /\ pc = "done" <=> reply # NoReply
    /\ pc = "done" =>
        /\ (Unparsable \/ SanitizationRaised) => reply.status = 400
        /\ upstream.kind = "http_error" => reply.status = 502
        /\ (DetectionFailed \/ ReplyUnprocessable) => reply.status = 500
        /\ ReplyNotJson => /\ reply.status = upstream.status
                           /\ reply.content = upstream.payload

----------------------------------------------------------------------------
(* Properties of concurrent requests *)

Posted(h) == h.pc \in {"forwarded", "answered", "done"}

\* C24: under every interleaving of the steps of concurrent requests, what
\* each request posts to the backend and the response it returns are what
\* the same request, given the same backend outcome, yields on its own.
C24_RequestsIndependent ==
    \A w \in WorkerIds :
        LET h == workers[w]
            alone == Alone(NewFrame(h.inbound), h.upstream)
        IN  /\ Posted(h) => h.sent = alone.sent
            /\ h.pc = "done" => h.reply = alone.reply

C24_Witness ==
    /\ workers[1].pc = "done"
    /\ workers[2].pc = "done"
    /\ workers[1].inbound # workers[2].inbound
    /\ Len(workers[1].sent) = 1
    /\ Len(workers[2].sent) = 1
    /\ workers[1].reply.status = 200
    /\ workers[2].reply.status = 502

\* two request bodies identical except for the text of their last message
SameButLastText(b1, b2) ==
    /\ b1.messages # <<>>
    /\ Len(b1.messages) = Len(b2.messages)
    /\ b1.messages[Len(b1.messages)].content.kind = "str"
    /\ b2.messages[Len(b2.messages)].content.kind = "str"
    /\ b2 = [b1 EXCEPT !.messages[Len(b1.messages)].content =
                           b2.messages[Len(b2.messages)].content]

\* the content of the first system message of a body, NoneC without one
SystemContent(b) ==
    IF \E i \in 1..Len(b.messages) : b.messages[i].role = "system"
    THEN b.messages[CHOOSE i \in 1..Len(b.messages) :
                        /\ b.messages[i].role = "system"
                        /\ \A j \in 1..(i - 1) : b.messages[j].role # "system"
                   ].content
    ELSE NoneC

\* C25: two inbound requests identical except for the text of their last
\* message are forwarded as bodies identical except for that text: same
\* tool_choice and other envelope keys, same number of messages, same
\* system-message content.
C25_TextIndependent ==
    \A v, w \in WorkerIds :
        LET g == workers[v]
            h == workers[w]
        IN  (/\ g.inbound.kind = "json"
             /\ h.inbound.kind = "json"
             /\ SameButLastText(g.inbound.value, h.inbound.value)
             /\ g.sent # <<>>
             /\ h.sent # <<>>) =>
                /\ g.sent[1].extra = h.sent[1].extra
                /\ Len(g.sent[1].messages) = Len(h.sent[1].messages)
                /\ SystemContent(g.sent[1]) = SystemContent(h.sent[1])
                /\ SameButLastText(g.sent[1], h.sent[1])

----------------------------------------------------------------------------
(* Properties of the tool-call validator *)

\* the limit of a model: 10 for devstral-small-2 and devstral-small, 15 for
\* devstral-2, the default entry's 5 for a name without configured settings
LimitOf(model_name) ==
    CASE model_name = <<"devstral", "small", "2">> -> 10
      [] model_name = <<"devstral", "small">> -> 10
      [] model_name = <<"devstral", "2">> -> 15
      [] OTHER -> 5

HasNameAndArguments(tc) ==
    /\ tc.function.kind = "obj"
    /\ tc.function.name \notin {NoId, ""}
    /\ tc.function.arguments # NoId

\* C26: _validate_tool_calls accepts a list iff it is empty, or its length
\* does not exceed the model's max_tool_calls and every call has a function
\* with a non-empty name and an arguments field.
C26_ValidatorAccepts ==
    pc = "validated" =>
        LET calls == validation.tool_calls
        IN  validation.result <=>
                \/ calls = <<>>
                \/ /\ Len(calls) <= LimitOf(validation.model_name)
                   /\ \A i \in 1..Len(calls) : HasNameAndArguments(calls[i])

C26_Witness ==
    /\ pc = "validated"
    /\ validation.model_name = <<"devstral", "small", "2">>
    /\ Len(validation.tool_calls) = 10
    /\ validation.result = TRUE

----------------------------------------------------------------------------
(* Properties of the whole request pipeline *)

\* the transcoded sequence pairing resolution starts from
TranscodedSequence == KeptMessages(ConvertAll(request.messages))

\* the ids of the tool calls the assistant messages of a sequence carry
EmittedIds(ms) ==
    {id \in {"a", "b", "", NoId} : \E i \in 1..Len(ms) : Emits(ms[i], id)}

\* the tool message at position i is one the claim says is removed
MustGo(ms, i) ==
    /\ ms[i].role = "tool"
    /\ \/ ms[i].tool_call_id \notin EmittedIds(ms)
       \/ i = Len(ms)
       \/ ms[i + 1].role = "user"

Staying(ms) == {i \in 1..Len(ms) : ~MustGo(ms, i)}

\* the place in the output of the staying message at position i
Rank(ms, i) == Cardinality({j \in Staying(ms) : j <= i})

\* C27: pairing resolution removes exactly the tool messages of the
\* transcoded sequence whose id no assistant tool call carries, or that are
\* last, or that are followed by a user message; every other message stays,
\* in order, and no tool message with an id never emitted is in the output.
C27_RemovedIffProblematic ==
    Sanitized =>
        LET ms == TranscodedSequence
            n == Cardinality(Staying(ms))
        IN  /\ Len(OutMessages) \in {n, n + 1}
            /\ Len(OutMessages) = n + 1 => OutMessages[n + 1] = DummyUser
            /\ \A i \in Staying(ms) :
                   /\ OutMessages[Rank(ms, i)].role = ms[i].role
                   /\ OutMessages[Rank(ms, i)].tool_call_id = ms[i].tool_call_id
                   /\ ms[i].role # "assistant" => OutMessages[Rank(ms, i)] = ms[i]
            /\ \A k \in 1..Len(OutMessages) :
                   OutMessages[k].role = "tool" =>
                       OutMessages[k].tool_call_id \in EmittedIds(ms)

C27_Witness ==
    /\ Sanitized
    /\ \E i \in 1..Len(TranscodedSequence) :
           /\ MustGo(TranscodedSequence, i)
           /\ TranscodedSequence[i].tool_call_id \in EmittedIds(TranscodedSequence)
    /\ \E k \in 1..Len(OutMessages) : OutMessages[k].role = "tool"

\* C28: every assistant message of the output has either no tool_calls field
\* or a non-empty tool_calls list.
C28_NoNullOrEmptyCalls ==
    Sanitized =>
        \A k \in 1..Len(OutMessages) :
            IsAssistant(OutMessages[k]) =>
                \/ OutMessages[k].tool_calls.kind = "absent"
                \/ /\ OutMessages[k].tool_calls.kind = "list"
                   /\ OutMessages[k].tool_calls.calls # <<>>

\* add_generation_prompt is in effect: true, or absent and defaulting to true
PromptInEffect(b) == b.add_generation_prompt \in {"absent", "true"}

\* C29: when add_generation_prompt is in effect and the request sets
\* continue_final_message, the forwarded envelope has no
\* continue_final_message; the trailing placeholder user message is never
\* appended to a request that still asks to continue the final message.
C29_PromptExcludesContinuation ==
    Sanitized =>
        /\ (PromptInEffect(request) /\ request.continue_final_message = "true")
               => out.body.continue_final_message = "absent"
        /\ (Len(OutMessages) = Len(Repair(TranscodedSequence)) + 1)
               => out.body.continue_final_message = "absent"

\* the output message m stands for the inbound message at position i
StandsFor(m, ms, i) ==
    LET r == convert_openai_to_mistral_message(ms[i])
    IN  /\ r.kind = "kept"
        /\ m.role = r.msg.role
        /\ m.tool_call_id = r.msg.tool_call_id
        /\ m.role # "assistant" => m = r.msg

\* the i-th smallest element of a set of positions
Nth(S, i) == CHOOSE p \in S : Cardinality({q \in S : q <= p}) = i

\* ms is, message by message and in order, a selection of the inbound ones
OrderedSelection(ms, inb) ==
    \E S \in SUBSET (1..Len(inb)) :
        /\ Cardinality(S) = Len(ms)
        /\ \A k \in 1..Len(ms) : StandsFor(ms[k], inb, Nth(S, k))

Count(ms, roles) == Cardinality({i \in 1..Len(ms) : ms[i].role \in roles})

WithoutTrailer(ms) == SubSeq(ms, 1, Len(ms) - 1)

\* C30: the output, minus at most one synthetic user message " " at its end,
\* is an order-preserving selection of the transcoded inbound messages that
\* holds every inbound user and system message, and the output is at most
\* one message longer than the input.
C30_OrderedSubsequence ==
    Sanitized =>
        /\ Len(OutMessages) <= Len(request.messages) + 1
        /\ \/ /\ OrderedSelection(OutMessages, request.messages)
              /\ Count(OutMessages, {"user", "system"})
                     = Count(request.messages, {"user", "system"})
           \/ /\ OutMessages # <<>>
              /\ OutMessages[Len(OutMessages)] = DummyUser
              /\ OrderedSelection(WithoutTrailer(OutMessages), request.messages)
              /\ Count(WithoutTrailer(OutMessages), {"user", "system"})
                     = Count(request.messages, {"user", "system"})

C30_Witness ==
    /\ Sanitized
    /\ Len(request.messages) = 3
    /\ Len(OutMessages) = 3
    /\ OutMessages[3] = DummyUser
    /\ request.messages[3].role = "tool"

====
